---- MODULE Spec2Model ----
(***************************************************************************)
(* A model of src/app.py: the Wikipedia pageview comparison script.        *)
(*                                                                         *)
(* Strings are sequences of one-character strings, except that inside a    *)
(* URL the words "https", "wiki", "A", "B", "%41" and the host name are    *)
(* single symbols (no claim depends on their letters); the URLs hold no    *)
(* ";", so urlparse's params split never applies.  A date is the integer   *)
(* yyyymmdd, which orders as datetime.date does; a mean is the exact       *)
(* fraction [sum, n].  A response of the API is a status code and a JSON   *)
(* body; views are non-negative integers.                                  *)
(***************************************************************************)
EXTENDS Integers, Sequences, FiniteSets, TLC

VARIABLES pc, url1, url2, start_date_str, end_date_str,
          article1, article2, start_str, end_str,
          requests, responses, data1, data2, df1, df2,
          merged_df, table, quarter_df, fig, shown

vars == << pc, url1, url2, start_date_str, end_date_str,
           article1, article2, start_str, end_str,
           requests, responses, data1, data2, df1, df2,
           merged_df, table, quarter_df, fig, shown >>

----------------------------------------------------------------------------
(* Bounds of the model.                                                    *)

\* longest run of free symbols in a URL of SpecTitle
MaxUrlLen == 5

\* longest "items" array of a response in the pipeline specification Spec
MaxRunItems == 1

\* longest "items" array of a response in the data specification SpecData
MaxItems == 2

----------------------------------------------------------------------------
(* Generic string helpers (Python str methods used by the script).         *)

Digit == {"0", "1", "2", "3", "4", "5", "6", "7", "8", "9"}

Min(a, b) == IF a < b THEN a ELSE b

\* s[from..to], empty when from > to
Slice(s, from, to) == IF from > to THEN << >> ELSE SubSeq(s, from, to)

\* str.startswith
StartsWith(s, p) == Len(s) >= Len(p) /\ SubSeq(s, 1, Len(p)) = p

\* str.find(sub, from): the first index >= from where sub occurs, 0 if none
RECURSIVE Find(_, _, _)
Find(s, sub, from) ==
  IF from + Len(sub) - 1 > Len(s) THEN 0
  ELSE IF SubSeq(s, from, from + Len(sub) - 1) = sub THEN from
  ELSE Find(s, sub, from + 1)

\* str.split(sep): the pieces between the non-overlapping occurrences of sep,
\* found left to right
RECURSIVE Split(_, _)
Split(s, sep) ==
  LET i == Find(s, sep, 1)
  IN  IF i = 0 THEN << s >>
      ELSE << Slice(s, 1, i - 1) >> \o Split(Slice(s, i + Len(sep), Len(s)), sep)

\* str.strip() for the blank
RECURSIVE LStrip(_)
LStrip(s) == IF s # << >> /\ Head(s) = " " THEN LStrip(Tail(s)) ELSE s

RECURSIVE RStrip(_)
RStrip(s) ==
  IF s # << >> /\ s[Len(s)] = " " THEN RStrip(SubSeq(s, 1, Len(s) - 1)) ELSE s

Strip(s) == RStrip(LStrip(s))

\* the sequences over S of length at most n
SeqsUpTo(S, n) == UNION { [1..k -> S] : k \in 0..n }

----------------------------------------------------------------------------
(* urllib.parse.urlparse(url).path and extract_title.                      *)

\* the symbols made of scheme characters (letters, digits, "+", "-", ".")
SchemeSyms == {"https", "wiki", "A", "B", "en.wikipedia.org"}

\* the first position >= from of a symbol of set D, Len(s)+1 if none
RECURSIVE FindAny(_, _, _)
FindAny(s, D, from) ==
  IF from > Len(s) THEN Len(s) + 1
  ELSE IF s[from] \in D THEN from
  ELSE FindAny(s, D, from + 1)

\* urlsplit: drop "scheme:" when everything before the first ":" is a scheme
AfterScheme(url) ==
  LET i == Find(url, << ":" >>, 1)
  IN  IF i > 1 /\ \A k \in 1..(i - 1) : url[k] \in SchemeSyms
      THEN Slice(url, i + 1, Len(url))
      ELSE url

\* urlsplit: drop "//netloc", the netloc running to the first of "/", "?", "#"
AfterNetloc(u) ==
  IF StartsWith(u, << "/", "/" >>)
  THEN Slice(u, FindAny(u, {"/", "?", "#"}, 3), Len(u))
  ELSE u

\* urlsplit: the path ends at the first "#" (fragment) or "?" (query)
UrlPath(url) ==
  LET u == AfterNetloc(AfterScheme(url))
  IN  Slice(u, 1, FindAny(u, {"?", "#"}, 1) - 1)

WikiPrefix == << "/", "wiki", "/" >>

\* extract_title raises ValueError exactly when this is FALSE
TitleOk(url) == StartsWith(UrlPath(url), WikiPrefix)

\* extract_title's return value
extract_title(url) == Split(UrlPath(url), WikiPrefix)[2]

----------------------------------------------------------------------------
(* datetime.strptime as the script uses it: the format is compiled to a    *)
(* regular expression (one group of ordered alternatives per directive),   *)
(* matched from the start of the string, and the whole string must be      *)
(* consumed; then the calendar date must exist.                            *)

Alt_Y == << << Digit, Digit, Digit, Digit >> >>

Alt_m == << << {"1"}, {"0", "1", "2"} >>,
            << {"0"}, Digit \ {"0"} >>,
            << Digit \ {"0"} >> >>

Alt_d == << << {"3"}, {"0", "1"} >>,
            << {"1", "2"}, Digit >>,
            << {"0"}, Digit \ {"0"} >>,
            << Digit \ {"0"} >>,
            << {" "}, Digit \ {"0"} >> >>

Alt_H == << << {"2"}, {"0", "1", "2", "3"} >>,
            << {"0", "1"}, Digit >>,
            << Digit >> >>

Lit(c) == << << {c} >> >>

\* "%Y-%m-%d"
DateFormat == << Alt_Y, Lit("-"), Alt_m, Lit("-"), Alt_d >>

\* "%Y%m%d%H"
TimestampFormat == << Alt_Y, Alt_m, Alt_d, Alt_H >>

\* the alternative (a sequence of character classes) matches s at pos
AltMatches(alt, s, pos) ==
  /\ pos + Len(alt) - 1 <= Len(s)
  /\ \A j \in 1..Len(alt) : s[pos + j - 1] \in alt[j]

NoMatch == [ok |-> FALSE, end |-> 0, caps |-> << >>]

\* re.match of the groups fmt[k..] on s from pos: the first alternative, in
\* order, after which the rest of the expression matches (backtracking)
RECURSIVE MatchFrom(_, _, _, _, _)
MatchFrom(fmt, k, a, s, pos) ==
  IF k > Len(fmt) THEN [ok |-> TRUE, end |-> pos, caps |-> << >>]
  ELSE IF a > Len(fmt[k]) THEN NoMatch
  ELSE IF AltMatches(fmt[k][a], s, pos)
       THEN LET r == MatchFrom(fmt, k + 1, 1, s, pos + Len(fmt[k][a]))
            IN  IF r.ok
                THEN [ok |-> TRUE, end |-> r.end,
                      caps |-> << Slice(s, pos, pos + Len(fmt[k][a]) - 1) >> \o r.caps]
                ELSE MatchFrom(fmt, k, a + 1, s, pos)
       ELSE MatchFrom(fmt, k, a + 1, s, pos)

DigitVal(c) ==
  CASE c = "0" -> 0 [] c = "1" -> 1 [] c = "2" -> 2 [] c = "3" -> 3
    [] c = "4" -> 4 [] c = "5" -> 5 [] c = "6" -> 6 [] c = "7" -> 7
    [] c = "8" -> 8 [] c = "9" -> 9

\* int(): blanks around the digits are ignored
RECURSIVE ToInt(_)
ToInt(s) ==
  IF s = << >> THEN 0
  ELSE IF s[Len(s)] = " " THEN ToInt(SubSeq(s, 1, Len(s) - 1))
  ELSE IF Head(s) = " " THEN ToInt(Tail(s))
  ELSE 10 * ToInt(SubSeq(s, 1, Len(s) - 1)) + DigitVal(s[Len(s)])

IsLeap(y) == (y % 4 = 0 /\ y % 100 # 0) \/ y % 400 = 0

DaysInMonth(y, m) ==
  IF m = 2 THEN (IF IsLeap(y) THEN 29 ELSE 28)
  ELSE IF m \in {4, 6, 9, 11} THEN 30 ELSE 31

\* datetime.date(y, m, d) exists
ValidDate(y, m, d) ==
  /\ y >= 1 /\ y <= 9999
  /\ m >= 1 /\ m <= 12
  /\ d >= 1 /\ d <= DaysInMonth(y, m)

MkDate(y, m, d) == y * 10000 + m * 100 + d
YearOf(date) == date \div 10000
MonthOf(date) == (date \div 100) % 100
DayOf(date) == date % 100

\* date = None
NoneDate == 0

\* strptime(s, fmt).date(), with the positions yi, mi, di of the year, month
\* and day groups in fmt: ok is FALSE where strptime raises ValueError
Strptime(s, fmt, yi, mi, di) ==
  LET r == MatchFrom(fmt, 1, 1, s, 1)
  IN  IF ~r.ok \/ r.end # Len(s) + 1 THEN [ok |-> FALSE, date |-> NoneDate]
      ELSE LET y == ToInt(r.caps[yi])
               m == ToInt(r.caps[mi])
               d == ToInt(r.caps[di])
           IN  IF ValidDate(y, m, d)
               THEN [ok |-> TRUE, date |-> MkDate(y, m, d)]
               ELSE [ok |-> FALSE, date |-> NoneDate]

\* datetime.datetime.strptime(s, "%Y-%m-%d").date()
ParseDate(s) == Strptime(s, DateFormat, 1, 3, 5)

\* datetime.datetime.strptime(ts, "%Y%m%d%H").date()
ParseTimestamp(ts) == Strptime(ts, TimestampFormat, 1, 2, 3)

Chr(n) ==
  CASE n = 0 -> "0" [] n = 1 -> "1" [] n = 2 -> "2" [] n = 3 -> "3"
    [] n = 4 -> "4" [] n = 5 -> "5" [] n = 6 -> "6" [] n = 7 -> "7"
    [] n = 8 -> "8" [] n = 9 -> "9"

\* n written in decimal, zero-padded to w digits
RECURSIVE Pad(_, _)
Pad(n, w) == IF w = 0 THEN << >> ELSE Pad(n \div 10, w - 1) \o << Chr(n % 10) >>

\* date.strftime("%Y%m%d") + "00"
ApiDate(date) ==
  Pad(YearOf(date), 4) \o Pad(MonthOf(date), 2) \o Pad(DayOf(date), 2) \o << "0", "0" >>

----------------------------------------------------------------------------
(* get_pageviews: the request and what the response yields.                *)

\* a response: the status code and the JSON body, whose "items" key may be
\* absent
Response(status, has_items, items) ==
  [status_code |-> status, has_items |-> has_items, items |-> items]

\* HTTP 200
StatusOk == 200

\* data.get("items", [])
BodyItems(response) == IF response.has_items THEN response.items ELSE << >>

\* the value get_pageviews returns for a response
PageviewsOf(response) ==
  IF response.status_code = StatusOk THEN BodyItems(response) ELSE << >>

----------------------------------------------------------------------------
(* process_data: one record per item.                                      *)

\* an item of the "items" array: a JSON object with the keys in `keys`
Item(keys, ts, views) == [keys |-> keys, timestamp |-> ts, views |-> views]

\* item.get("timestamp", "")
ItemTimestamp(item) ==
  IF "timestamp" \in item.keys THEN item.timestamp ELSE << >>

\* item.get("views", 0)
ItemViews(item) == IF "views" \in item.keys THEN item.views ELSE 0

\* the try/except around strptime: None where it raises
RecordDate(item) ==
  LET r == ParseTimestamp(ItemTimestamp(item))
  IN  IF r.ok THEN r.date ELSE NoneDate

\* f"views_{article_label}"
ViewsCol(label) == << "views_" >> \o label

\* pd.DataFrame(records): no columns when there is no record
process_data(items, label) ==
  [cols |-> IF items = << >> THEN << >> ELSE << << "date" >>, ViewsCol(label) >>,
   rows |-> [i \in 1..Len(items) |->
               [date |-> RecordDate(items[i]), views |-> ItemViews(items[i])]]]

\* DataFrame.empty
IsEmpty(df) == df.rows = << >>

----------------------------------------------------------------------------
(* pd.merge(df1, df2, on="date", how="outer") and sort_values("date").     *)

\* a missing value (NaN) of a views column
NaN == -1

\* Matching with SQL's rule for the missing key: None matches nothing
RECURSIVE Matching_NoNull(_, _)
Matching_NoNull(right, d) ==
  IF right = << >> THEN << >>
  ELSE (IF Head(right).date = d /\ d # NoneDate THEN << Head(right) >> ELSE << >>)
       \o Matching_NoNull(Tail(right), d)

\* the rows of `right` whose key equals d, in order (None matches None)
RECURSIVE Matching(_, _)
Matching(right, d) ==
  IF right = << >> THEN << >>
  ELSE (IF Head(right).date = d THEN << Head(right) >> ELSE << >>)
       \o Matching(Tail(right), d)

\* a left row with one of its matches, or with NaN when it has none
RECURSIVE PairWith(_, _)
PairWith(l, ms) ==
  IF ms = << >> THEN << >>
  ELSE << [date |-> l.date, x |-> l.views, y |-> Head(ms).views] >>
       \o PairWith(l, Tail(ms))

RECURSIVE LeftJoin(_, _)
LeftJoin(left, right) ==
  IF left = << >> THEN << >>
  ELSE LET l == Head(left)
           ms == Matching(right, l.date)
       IN  (IF ms = << >> THEN << [date |-> l.date, x |-> l.views, y |-> NaN] >>
            ELSE PairWith(l, ms))
           \o LeftJoin(Tail(left), right)

\* the right rows whose key no left row has
RECURSIVE RightOnly(_, _)
RightOnly(left, right) ==
  IF right = << >> THEN << >>
  ELSE LET r == Head(right)
       IN  (IF Matching(left, r.date) = << >>
            THEN << [date |-> r.date, x |-> NaN, y |-> r.views] >>
            ELSE << >>)
           \o RightOnly(left, Tail(right))

\* OuterJoin as how="left": the rows only the right frame has are dropped
OuterJoin_Left(left, right) == LeftJoin(left, right)

OuterJoin(left, right) == LeftJoin(left, right) \o RightOnly(left, right)

\* sort_values order of the key: ascending, None (NaN) last
DateBefore(a, b) ==
  IF a = NoneDate THEN FALSE
  ELSE IF b = NoneDate THEN TRUE
  ELSE a < b

\* insert row r after the rows that are not after it (a stable sort; numpy
\* sorts arrays this small by insertion)
RECURSIVE InsertRow(_, _)
InsertRow(r, sorted) ==
  IF sorted = << >> THEN << r >>
  ELSE IF DateBefore(r.date, Head(sorted).date) THEN << r >> \o sorted
  ELSE << Head(sorted) >> \o InsertRow(r, Tail(sorted))

RECURSIVE SortByDate(_)
SortByDate(rows) ==
  IF rows = << >> THEN << >>
  ELSE InsertRow(rows[Len(rows)], SortByDate(SubSeq(rows, 1, Len(rows) - 1)))

\* the two views columns of the merge: equal names get the suffixes _x, _y
MergedCols(c1, c2) ==
  IF c1 = c2 THEN << c1 \o << "_x" >>, c2 \o << "_y" >> >> ELSE << c1, c2 >>

\* merged_df after lines 94-95
merge(d1, d2) ==
  [cols |-> MergedCols(d1.cols[2], d2.cols[2]),
   rows |-> SortByDate(OuterJoin(d1.rows, d2.rows))]

\* merged_df.head(20)
TableRows == 20

Preview(rows) == Slice(rows, 1, Min(Len(rows), TableRows))

----------------------------------------------------------------------------
(* Step 4: quarterly aggregation.                                          *)

\* the quarter of a missing date (NaT), which groupby drops
NaT == 0

\* pd.to_datetime(date).to_period('Q'), as year * 10 + quarter
QuarterOf(date) ==
  IF date = NoneDate THEN NaT
  ELSE YearOf(date) * 10 + ((MonthOf(date) - 1) \div 3 + 1)

\* f"Q{r.quarter} {r.year}"
QuarterStr(q) == << "Q", Chr(q % 10), " " >> \o Pad(q \div 10, 4)

\* GroupKeys as groupby(dropna=False): the missing quarter is a group too
GroupKeys_KeepNaT(rows) ==
  { QuarterOf(rows[i].date) : i \in 1..Len(rows) }

\* the group keys of groupby('quarter'): NaT is no group
GroupKeys(rows) ==
  { QuarterOf(rows[i].date) : i \in 1..Len(rows) } \ {NaT}

\* the keys in ascending order (groupby sorts them; sort_values('quarter'))
RECURSIVE SortedKeys(_)
SortedKeys(S) ==
  IF S = {} THEN << >>
  ELSE LET m == CHOOSE a \in S : \A b \in S : a <= b
       IN  << m >> \o SortedKeys(S \ {m})

\* the value of views column c (1 = the left, 2 = the right input) in a row
Cell(row, c) == IF c = 1 THEN row.x ELSE row.y

\* GroupMean with the missing cells counted as zeros
RECURSIVE GroupMean_CountNaN(_, _, _)
GroupMean_CountNaN(rows, q, c) ==
  IF rows = << >> THEN [sum |-> 0, n |-> 0]
  ELSE LET r == Head(rows)
           rest == GroupMean_CountNaN(Tail(rows), q, c)
       IN  IF QuarterOf(r.date) = q
           THEN [sum |-> rest.sum + (IF Cell(r, c) = NaN THEN 0 ELSE Cell(r, c)),
                 n |-> rest.n + 1]
           ELSE rest

\* 'mean' of column c over the group q: NaN cells are skipped; the mean is
\* kept as the exact fraction sum / n, and n = 0 is the NaN mean
RECURSIVE GroupMean(_, _, _)
GroupMean(rows, q, c) ==
  IF rows = << >> THEN [sum |-> 0, n |-> 0]
  ELSE LET r == Head(rows)
           rest == GroupMean(Tail(rows), q, c)
       IN  IF QuarterOf(r.date) = q /\ Cell(r, c) # NaN
           THEN [sum |-> rest.sum + Cell(r, c), n |-> rest.n + 1]
           ELSE rest

\* the keys of the dict passed to agg: equal keys are one key
AggCols(a1, a2) ==
  IF ViewsCol(a1) = ViewsCol(a2) THEN << ViewsCol(a1) >>
  ELSE << ViewsCol(a1), ViewsCol(a2) >>

\* the position of column name among the merged views columns, 0 if absent
ColIndex(cols, name) ==
  IF \E c \in 1..Len(cols) : cols[c] = name
  THEN CHOOSE c \in 1..Len(cols) : cols[c] = name
  ELSE 0

\* agg raises KeyError when a named column is not in the frame
AggOk(merged, a1, a2) ==
  \A k \in 1..Len(AggCols(a1, a2)) : ColIndex(merged.cols, AggCols(a1, a2)[k]) # 0

\* quarter_df after lines 103-109
aggregate_by_quarter(merged, a1, a2) ==
  LET names == AggCols(a1, a2)
      keys == SortedKeys(GroupKeys(merged.rows))
  IN  [cols |-> names,
       rows |-> [g \in 1..Len(keys) |->
                   [quarter |-> keys[g],
                    quarter_str |-> QuarterStr(keys[g]),
                    means |-> [k \in 1..Len(names) |->
                                 GroupMean(merged.rows, keys[g],
                                           ColIndex(merged.cols, names[k]))]]]]

\* quarter_df[name]: the column's values, one per group
Column(qdf, name) ==
  [g \in 1..Len(qdf.rows) |-> qdf.rows[g].means[ColIndex(qdf.cols, name)]]

\* the two go.Scatter traces of Step 5
Traces(qdf, a1, a2) ==
  << [name |-> a1, color |-> "red",
      x |-> [g \in 1..Len(qdf.rows) |-> qdf.rows[g].quarter_str],
      y |-> Column(qdf, ViewsCol(a1))],
     [name |-> a2, color |-> "blue",
      x |-> [g \in 1..Len(qdf.rows) |-> qdf.rows[g].quarter_str],
      y |-> Column(qdf, ViewsCol(a2))] >>

----------------------------------------------------------------------------
(* The inputs the specifications draw from.                                *)

Origin == << "https", ":", "/", "/", "en.wikipedia.org" >>

UrlA == Origin \o << "/", "wiki", "/", "A" >>
UrlB == Origin \o << "/", "wiki", "/", "B" >>

\* the URLs typed in the runs of Spec: two articles, a relative URL with a
\* query that names article A again, and a URL outside /wiki/
RunUrls ==
  { UrlA, UrlB, << "/", "wiki", "/", "A", "?", "B" >>, Origin \o << "/", "A" >> }

\* the symbols of a URL after the scheme and host, in SpecTitle
UrlSyms == {"/", "wiki", "A", "%41", "?", "#"}

\* the URLs of SpecTitle: absolute or relative, the free symbols following
\* the host directly or after /wiki/
TitleUrls ==
  { pre \o head \o t :
      pre \in { Origin, << >> }, head \in { << >>, WikiPrefix },
      t \in SeqsUpTo(UrlSyms, MaxUrlLen) }

Date_2024_01_01 == << "2", "0", "2", "4", "-", "0", "1", "-", "0", "1" >>
Date_2024_06_30 == << "2", "0", "2", "4", "-", "0", "6", "-", "3", "0" >>

\* the date lines typed in the runs of Spec, before .strip()
RunDateInputs ==
  { Date_2024_01_01,
    << " " >> \o Date_2024_06_30 \o << " " >>,
    << "2", "0", "2", "4", "-", "1", "-", "5" >>,
    << "0", "1", "/", "0", "2", "/", "2", "0", "2", "4" >> }

\* the date lines of SpecDate: year, month and day texts around two
\* separators, with or without blanks around them
YearTexts == { << "2", "0", "2", "4" >>, << "2", "0", "2", "3" >>,
               << "2", "4" >>, << "2", "0", "2", "4", "5" >> }
MonthTexts == { << "0", "1" >>, << "1" >>, << "0", "2" >>, << "2" >>,
                << "1", "2" >>, << "1", "3" >>, << "0", "0" >> }
DayTexts == { << "0", "5" >>, << "5" >>, << " ", "5" >>, << "2", "9" >>,
              << "3", "0" >>, << "3", "1" >>, << "3", "2" >>, << "0" >>,
              << "0", "5", "x" >>, << "0", "5", " " >> }
SepTexts == { << "-" >>, << "/" >> }

DateInputs ==
  { y \o s1 \o m \o << "-" >> \o d :
      y \in YearTexts, s1 \in SepTexts, m \in MonthTexts, d \in DayTexts }

\* the timestamp text of a day at hour 00, as the API sends it
Ts(y, m, d) == Pad(y, 4) \o Pad(m, 2) \o Pad(d, 2) \o << "0", "0" >>

BadTs == << "b", "a", "d" >>

Full == {"timestamp", "views"}

\* the items of the responses of SpecData: three days in two quarters, a
\* malformed timestamp, and a day repeated with no "views" key
ItemKinds ==
  { Item(Full, Ts(2024, 1, 1), 10),
    Item(Full, Ts(2024, 1, 2), 20),
    Item(Full, Ts(2024, 4, 1), 30),
    Item(Full, BadTs, 40),
    Item({"timestamp"}, Ts(2024, 1, 1), 0) }

\* the scenario of the specification's section 8: A on 2024-01-01..03, B on
\* 2024-01-02..03
ScenarioA ==
  << Item(Full, Ts(2024, 1, 1), 10), Item(Full, Ts(2024, 1, 2), 20),
     Item(Full, Ts(2024, 1, 3), 30) >>
ScenarioB ==
  << Item(Full, Ts(2024, 1, 2), 5), Item(Full, Ts(2024, 1, 3), 15) >>

DataSeries == SeqsUpTo(ItemKinds, MaxItems)

\* the items of the responses of Spec: two days, a malformed timestamp and
\* an item with no "timestamp" key
RunItemKinds ==
  { Item(Full, Ts(2024, 1, 1), 10),
    Item(Full, Ts(2024, 4, 1), 30),
    Item(Full, BadTs, 40),
    Item({"views"}, << >>, 5) }

\* the responses of Spec: 200 with or without an "items" array, 404, 500
RunResponses ==
  { Response(StatusOk, TRUE, items) : items \in SeqsUpTo(RunItemKinds, MaxRunItems) }
  \cup { Response(st, FALSE, << >>) : st \in {StatusOk, 404, 500} }

NoFrame == [cols |-> << >>, rows |-> << >>]

----------------------------------------------------------------------------
(* The script, top to bottom.                                              *)

\* urllib.parse.quote(article, safe=''), symbol by symbol
QuoteSym(c) ==
  CASE c = "/" -> "%2F" [] c = "%41" -> "%2541" [] OTHER -> c

Quote(article) == [i \in 1..Len(article) |-> QuoteSym(article[i])]

\* the GET of get_pageviews: the article and the range in the URL
Request(article, from, to) ==
  [article |-> Quote(article), start |-> from, end |-> to]

\* lines 18-21: the four lines read, each stripped
Init ==
  /\ pc = "extract"
  /\ url1 \in RunUrls
  /\ url2 \in RunUrls
  /\ start_date_str \in { Strip(r) : r \in RunDateInputs }
  /\ end_date_str \in { Strip(r) : r \in RunDateInputs }
  /\ article1 = << >> /\ article2 = << >>
  /\ start_str = << >> /\ end_str = << >>
  /\ requests = << >> /\ responses = << >>
  /\ data1 = << >> /\ data2 = << >>
  /\ df1 = NoFrame /\ df2 = NoFrame
  /\ merged_df = NoFrame /\ table = << >>
  /\ quarter_df = NoFrame /\ fig = << >>
  /\ shown = << >>

\* ExtractTitles with the `raise` of line 35 left out: the error is printed
\* and the script goes on
ExtractTitles_NoRaise ==
  /\ pc = "extract"
  /\ article1' = IF TitleOk(url1) THEN extract_title(url1) ELSE article1
  /\ article2' = IF TitleOk(url1) /\ TitleOk(url2) THEN extract_title(url2)
                 ELSE article2
  /\ pc' = "dates"
  /\ shown' = IF TitleOk(url1) /\ TitleOk(url2) THEN shown
              ELSE Append(shown, "Error extracting article title")
  /\ UNCHANGED << url1, url2, start_date_str, end_date_str, start_str, end_str,
                  requests, responses, data1, data2, df1, df2, merged_df, table,
                  quarter_df, fig >>

\* lines 30-35: both titles, or the error printed and re-raised
ExtractTitles ==
  /\ pc = "extract"
  /\ article1' = IF TitleOk(url1) THEN extract_title(url1) ELSE article1
  /\ article2' = IF TitleOk(url1) /\ TitleOk(url2) THEN extract_title(url2)
                 ELSE article2
  /\ IF TitleOk(url1) /\ TitleOk(url2)
     THEN pc' = "dates" /\ shown' = shown
     ELSE pc' = "raised" /\ shown' = Append(shown, "Error extracting article title")
  /\ UNCHANGED << url1, url2, start_date_str, end_date_str, start_str, end_str,
                  requests, responses, data1, data2, df1, df2, merged_df, table,
                  quarter_df, fig >>

\* lines 38-46: both dates and their API form, or the error printed and
\* re-raised
ParseDates ==
  /\ pc = "dates"
  /\ IF ParseDate(start_date_str).ok /\ ParseDate(end_date_str).ok
     THEN /\ start_str' = ApiDate(ParseDate(start_date_str).date)
          /\ end_str' = ApiDate(ParseDate(end_date_str).date)
          /\ pc' = "fetch1"
          /\ shown' = shown
     ELSE /\ pc' = "raised"
          /\ shown' = Append(shown, "Error parsing dates")
          /\ UNCHANGED << start_str, end_str >>
  /\ UNCHANGED << url1, url2, start_date_str, end_date_str, article1, article2,
                  requests, responses, data1, data2, df1, df2, merged_df, table,
                  quarter_df, fig >>

\* what get_pageviews prints for a response
FetchReport(response) ==
  IF response.status_code = StatusOk THEN << >> ELSE << "Failed to retrieve data" >>

\* line 83, get_pageviews(article1, ...): the GET is sent (line 60) and the
\* script blocks
Get1 ==
  /\ pc = "fetch1"
  /\ requests' = Append(requests, Request(article1, start_str, end_str))
  /\ pc' = "await1"
  /\ UNCHANGED << url1, url2, start_date_str, end_date_str, article1, article2,
                  start_str, end_str, responses, data1, data2, df1, df2,
                  merged_df, table, quarter_df, fig, shown >>

\* Response1 with a retry: a status other than 200 sends the request again
Response1_Retry ==
  /\ pc = "await1"
  /\ \E response \in RunResponses :
       /\ responses' = Append(responses, response.status_code)
       /\ data1' = PageviewsOf(response)
       /\ shown' = shown \o FetchReport(response)
       /\ pc' = IF response.status_code = StatusOk THEN "fetch2" ELSE "fetch1"
  /\ UNCHANGED << url1, url2, start_date_str, end_date_str, article1, article2,
                  start_str, end_str, requests, data2, df1, df2, merged_df,
                  table, quarter_df, fig >>

\* the response arrives and get_pageviews returns (lines 61-66)
Response1 ==
  /\ pc = "await1"
  /\ \E response \in RunResponses :
       /\ responses' = Append(responses, response.status_code)
       /\ data1' = PageviewsOf(response)
       /\ shown' = shown \o FetchReport(response)
  /\ pc' = "fetch2"
  /\ UNCHANGED << url1, url2, start_date_str, end_date_str, article1, article2,
                  start_str, end_str, requests, data2, df1, df2, merged_df,
                  table, quarter_df, fig >>

\* line 84, get_pageviews(article2, ...): the GET is sent
Get2 ==
  /\ pc = "fetch2"
  /\ requests' = Append(requests, Request(article2, start_str, end_str))
  /\ pc' = "await2"
  /\ UNCHANGED << url1, url2, start_date_str, end_date_str, article1, article2,
                  start_str, end_str, responses, data1, data2, df1, df2,
                  merged_df, table, quarter_df, fig, shown >>

\* the response arrives and get_pageviews returns
Response2 ==
  /\ pc = "await2"
  /\ \E response \in RunResponses :
       /\ responses' = Append(responses, response.status_code)
       /\ data2' = PageviewsOf(response)
       /\ shown' = shown \o FetchReport(response)
  /\ pc' = "process"
  /\ UNCHANGED << url1, url2, start_date_str, end_date_str, article1, article2,
                  start_str, end_str, requests, data1, df1, df2, merged_df,
                  table, quarter_df, fig >>

\* lines 86-87
ProcessData ==
  /\ pc = "process"
  /\ df1' = process_data(data1, article1)
  /\ df2' = process_data(data2, article2)
  /\ pc' = "guard"
  /\ UNCHANGED << url1, url2, start_date_str, end_date_str, article1, article2,
                  start_str, end_str, requests, responses, data1, data2, merged_df, table,
                  quarter_df, fig, shown >>

\* Guard with `and` for `or`: the script stops only when both frames are empty
Guard_And ==
  /\ pc = "guard"
  /\ IF IsEmpty(df1) /\ IsEmpty(df2)
     THEN /\ pc' = "exit"
          /\ shown' = Append(shown, "One or both articles did not return pageview data.")
     ELSE /\ pc' = "merge"
          /\ shown' = shown
  /\ UNCHANGED << url1, url2, start_date_str, end_date_str, article1, article2,
                  start_str, end_str, requests, responses, data1, data2, df1, df2,
                  merged_df, table, quarter_df, fig >>

\* lines 89-91: the message and SystemExit when a frame is empty
Guard ==
  /\ pc = "guard"
  /\ IF IsEmpty(df1) \/ IsEmpty(df2)
     THEN /\ pc' = "exit"
          /\ shown' = Append(shown, "One or both articles did not return pageview data.")
     ELSE /\ pc' = "merge"
          /\ shown' = shown
  /\ UNCHANGED << url1, url2, start_date_str, end_date_str, article1, article2,
                  start_str, end_str, requests, responses, data1, data2, df1, df2,
                  merged_df, table, quarter_df, fig >>

\* lines 94-98: the merge, the sort and the table of the first rows
Merge ==
  /\ pc = "merge"
  /\ merged_df' = merge(df1, df2)
  /\ table' = Preview(merged_df'.rows)
  /\ shown' = Append(shown, "table")
  /\ pc' = "aggregate"
  /\ UNCHANGED << url1, url2, start_date_str, end_date_str, article1, article2,
                  start_str, end_str, requests, responses, data1, data2, df1, df2,
                  quarter_df, fig >>

\* lines 103-112: the quarterly means and their table, or agg's KeyError
Aggregate ==
  /\ pc = "aggregate"
  /\ IF AggOk(merged_df, article1, article2)
     THEN /\ quarter_df' = aggregate_by_quarter(merged_df, article1, article2)
          /\ shown' = Append(shown, "quarterly")
          /\ pc' = "plot"
     ELSE /\ pc' = "KeyError"
          /\ UNCHANGED << quarter_df, shown >>
  /\ UNCHANGED << url1, url2, start_date_str, end_date_str, article1, article2,
                  start_str, end_str, requests, responses, data1, data2, df1, df2,
                  merged_df, table, fig >>

\* lines 117-179: the figure with its two traces, shown
Plot ==
  /\ pc = "plot"
  /\ fig' = Traces(quarter_df, article1, article2)
  /\ shown' = Append(shown, "chart")
  /\ pc' = "done"
  /\ UNCHANGED << url1, url2, start_date_str, end_date_str, article1, article2,
                  start_str, end_str, requests, responses, data1, data2, df1, df2,
                  merged_df, table, quarter_df >>

Next ==
  \/ ExtractTitles
  \/ ParseDates
  \/ Get1
  \/ Response1
  \/ Get2
  \/ Response2
  \/ ProcessData
  \/ Guard
  \/ Merge
  \/ Aggregate
  \/ Plot

\* a run of the script on the typed inputs and the API's responses
Spec == Init /\ [][Next]_vars

----------------------------------------------------------------------------
(* The parts of the script on wider inputs.                                *)

\* extract_title on the URLs of TitleUrls (the second URL is UrlB)
InitTitle ==
  /\ pc = "extract"
  /\ url1 \in TitleUrls
  /\ url2 = UrlB
  /\ start_date_str = Date_2024_01_01
  /\ end_date_str = Date_2024_06_30
  /\ article1 = << >> /\ article2 = << >>
  /\ start_str = << >> /\ end_str = << >>
  /\ requests = << >> /\ responses = << >>
  /\ data1 = << >> /\ data2 = << >>
  /\ df1 = NoFrame /\ df2 = NoFrame
  /\ merged_df = NoFrame /\ table = << >>
  /\ quarter_df = NoFrame /\ fig = << >>
  /\ shown = << >>

NextTitle == ExtractTitles

SpecTitle == InitTitle /\ [][NextTitle]_vars

\* the date parsing on the lines of DateInputs (the end date is 2024-06-30),
\* from the state after the titles of UrlA and UrlB are extracted
InitDate ==
  /\ pc = "dates"
  /\ url1 = UrlA
  /\ url2 = UrlB
  /\ start_date_str \in { Strip(r) : r \in DateInputs }
  /\ end_date_str = Date_2024_06_30
  /\ article1 = extract_title(UrlA) /\ article2 = extract_title(UrlB)
  /\ start_str = << >> /\ end_str = << >>
  /\ requests = << >> /\ responses = << >>
  /\ data1 = << >> /\ data2 = << >>
  /\ df1 = NoFrame /\ df2 = NoFrame
  /\ merged_df = NoFrame /\ table = << >>
  /\ quarter_df = NoFrame /\ fig = << >>
  /\ shown = << >>

NextDate == ParseDates

SpecDate == InitDate /\ [][NextDate]_vars

\* steps 3 to 5 on the series of DataSeries, from the state after both
\* requests for articles A and B were answered with 200
InitData ==
  /\ pc = "process"
  /\ url1 = UrlA
  /\ url2 = UrlB
  /\ start_date_str = Date_2024_01_01
  /\ end_date_str = Date_2024_06_30
  /\ article1 = extract_title(UrlA) /\ article2 = extract_title(UrlB)
  /\ start_str = ApiDate(ParseDate(Date_2024_01_01).date)
  /\ end_str = ApiDate(ParseDate(Date_2024_06_30).date)
  /\ requests = << Request(article1, start_str, end_str),
                   Request(article2, start_str, end_str) >>
  /\ responses = << StatusOk, StatusOk >>
  /\ data1 \in DataSeries \cup {ScenarioA}
  /\ data2 \in DataSeries \cup {ScenarioB}
  /\ df1 = NoFrame /\ df2 = NoFrame
  /\ merged_df = NoFrame /\ table = << >>
  /\ quarter_df = NoFrame /\ fig = << >>
  /\ shown = << >>

NextData ==
  \/ ProcessData
  \/ Guard
  \/ Merge
  \/ Aggregate
  \/ Plot

SpecData == InitData /\ [][NextData]_vars

----------------------------------------------------------------------------
(* Properties of a run (Spec).                                             *)

Has(seq, e) == \E i \in 1..Len(seq) : seq[i] = e

\* the positions before the first request
BeforeFetch == {"extract", "dates", "raised"}

\* the positions after the emptiness guard was evaluated
AfterGuard == {"exit", "merge", "aggregate", "KeyError", "plot", "done"}

\* the path of the URL begins with /wiki/
WikiUrl(url) == StartsWith(UrlPath(url), WikiPrefix)

BadInput ==
  \/ ~WikiUrl(url1) \/ ~WikiUrl(url2)
  \/ ~ParseDate(start_date_str).ok \/ ~ParseDate(end_date_str).ok

\* C1: in a run where a URL's path does not begin with /wiki/ or a date does
\* not parse, the script never leaves the validation steps: it ends raised
\* with the error printed, no request is ever sent and no table, quarterly
\* table or chart is ever produced.
C1_BadInputHalts ==
  BadInput =>
    /\ pc \in BeforeFetch
    /\ requests = << >> /\ responses = << >>
    /\ table = << >> /\ fig = << >>
    /\ ~Has(shown, "table") /\ ~Has(shown, "quarterly") /\ ~Has(shown, "chart")
    /\ pc = "raised" =>
         shown = IF ~WikiUrl(url1) \/ ~WikiUrl(url2)
                 THEN << "Error extracting article title" >>
                 ELSE << "Error parsing dates" >>
    /\ (pc = "dates" => WikiUrl(url1) /\ WikiUrl(url2))

\* a run stopped by a date that does not parse, after both titles were found
C1_Witness ==
  /\ pc = "raised"
  /\ WikiUrl(url1) /\ WikiUrl(url2)
  /\ ~ParseDate(end_date_str).ok
  /\ shown = << "Error parsing dates" >>

EmptyResultMsg == "One or both articles did not return pageview data."

\* C4: a status other than 200 makes that fetch return the empty sequence;
\* once the guard has run with an empty series the script has exited with
\* the message, and nothing was merged, tabled or charted; a merge, a table
\* or a chart exists only when both fetched series are non-empty.
C4_EmptyResultStops ==
  /\ Len(responses) >= 1 /\ responses[1] # StatusOk => data1 = << >>
  /\ Len(responses) >= 2 /\ responses[2] # StatusOk => data2 = << >>
  /\ pc \in AfterGuard /\ (data1 = << >> \/ data2 = << >>) =>
       /\ pc = "exit"
       /\ shown[Len(shown)] = EmptyResultMsg
       /\ merged_df = NoFrame /\ table = << >> /\ quarter_df = NoFrame
       /\ fig = << >>
       /\ ~Has(shown, "table") /\ ~Has(shown, "chart")
  /\ (merged_df # NoFrame \/ Has(shown, "table") \/ Has(shown, "chart") \/ fig # << >>) =>
       /\ data1 # << >> /\ data2 # << >>
       /\ responses = << StatusOk, StatusOk >>
  /\ pc = "exit" => data1 = << >> \/ data2 = << >>

\* the second article answered 404 while the first returned data
C4_Witness ==
  /\ pc = "exit"
  /\ data1 # << >>
  /\ responses = << StatusOk, 404 >>
  /\ shown = << "Failed to retrieve data", EmptyResultMsg >>

\* C5: one GET per article and no more, one at a time: a request is sent
\* only when every earlier one was answered, the first is for article 1 and
\* the second for article 2, the second is sent whatever the first status
\* was, and the guard runs only after both were answered.
C5_OneGetEach ==
  /\ Len(requests) <= 2
  /\ Len(responses) <= Len(requests) /\ Len(requests) <= Len(responses) + 1
  /\ pc \in BeforeFetch \cup {"fetch1"} <=> requests = << >>
  /\ pc = "await1" <=> Len(requests) = 1 /\ responses = << >>
  /\ pc = "fetch2" <=> Len(requests) = 1 /\ Len(responses) = 1
  /\ pc = "await2" <=> Len(requests) = 2 /\ Len(responses) = 1
  /\ pc \in {"process", "guard"} \cup AfterGuard =>
       Len(requests) = 2 /\ Len(responses) = 2
  /\ Len(requests) >= 1 =>
       requests[1] = [article |-> Quote(article1), start |-> start_str, end |-> end_str]
  /\ Len(requests) = 2 =>
       requests[2] = [article |-> Quote(article2), start |-> start_str, end |-> end_str]
  /\ pc = "fetch2" => ENABLED Get2

\* both requests were sent and answered although the first got a 404
C5_Witness ==
  /\ pc = "guard"
  /\ responses = << 404, StatusOk >>
  /\ Len(requests) = 2

\* C10: a run that passes the guard carries two distinct views columns in
\* the merged frame, its aggregation yields a mean column per article and
\* its chart two traces, also when both URLs name the same article.
C10_TwoSeries ==
  /\ pc \in {"aggregate", "KeyError", "plot", "done"} =>
       /\ Len(merged_df.cols) = 2
       /\ merged_df.cols[1] # merged_df.cols[2]
  /\ pc # "KeyError"
  /\ pc \in {"plot", "done"} =>
       /\ ColIndex(quarter_df.cols, ViewsCol(article1)) # 0
       /\ ColIndex(quarter_df.cols, ViewsCol(article2)) # 0
  /\ pc = "done" => Len(fig) = 2

----------------------------------------------------------------------------
(* Properties of extract_title (SpecTitle) and of the date parsing         *)
(* (SpecDate).                                                             *)

\* C2: for a URL whose path is /wiki/<Title>, extract_title returns the whole
\* remainder of the path after the leading /wiki/; for any other URL it
\* raises and the error is printed.
C2_WholeRemainder ==
  pc # "extract" =>
    IF WikiUrl(url1)
    THEN /\ pc = "dates"
         /\ article1 = Slice(UrlPath(url1), Len(WikiPrefix) + 1, Len(UrlPath(url1)))
    ELSE /\ pc = "raised"
         /\ shown = << "Error extracting article title" >>

\* s has the shape YYYY-MM-DD: ten characters, digits around two hyphens
IsoShape(s) ==
  /\ Len(s) = 10
  /\ s[5] = "-" /\ s[8] = "-"
  /\ \A i \in {1, 2, 3, 4, 6, 7, 9, 10} : s[i] \in Digit

\* the date the script formatted for the API, written back as YYYY-MM-DD
IsoOf(api) ==
  SubSeq(api, 1, 4) \o << "-" >> \o SubSeq(api, 5, 6) \o << "-" >> \o SubSeq(api, 7, 8)

\* C3: a date line is accepted only if it has the shape YYYY-MM-DD, and the
\* accepted date written back as YYYY-MM-DD is the line itself; every other
\* line raises.
C3_StrictRoundTrip ==
  pc # "dates" =>
    /\ (pc = "fetch1" => IsoShape(start_date_str) /\ IsoOf(start_str) = start_date_str)
    /\ (~IsoShape(start_date_str) => pc = "raised")

----------------------------------------------------------------------------
(* Properties of the merge and the aggregation (SpecData).                 *)

\* the positions where merged_df holds the merge of df1 and df2
Merged == pc \in {"aggregate", "KeyError", "plot", "done"}

\* the positions where quarter_df holds the aggregation of merged_df
Aggregated == pc \in {"plot", "done"}

\* the dates (None included) of the rows of a frame
Keys(rows) == { rows[i].date : i \in 1..Len(rows) }

\* the positions of the rows with date d
RowsAt(rows, d) == { i \in 1..Len(rows) : rows[i].date = d }

NoRepeat(rows) == \A d \in Keys(rows) : Cardinality(RowsAt(rows, d)) = 1

\* ascending dates, the rows without a date last
Ascending(rows) ==
  \A i, j \in 1..Len(rows) :
    i < j =>
      /\ rows[i].date = NoneDate => rows[j].date = NoneDate
      /\ rows[i].date # NoneDate /\ rows[j].date # NoneDate =>
           rows[i].date <= rows[j].date

C7_OneRowPerDate ==
  Merged /\ Keys(df1.rows) \cap Keys(df2.rows) # {} =>
    /\ Len(merged_df.rows) = Cardinality(Keys(df1.rows) \cup Keys(df2.rows))
    /\ \A d \in Keys(df1.rows) \cup Keys(df2.rows) :
         Cardinality(RowsAt(merged_df.rows, d)) = 1
    /\ \A i \in 1..Len(merged_df.rows) :
         (merged_df.rows[i].x # NaN /\ merged_df.rows[i].y # NaN)
           <=> merged_df.rows[i].date \in Keys(df1.rows) \cap Keys(df2.rows)

\* C7 as amended: a date that both series have gets one row per pair of its
\* records (m * n rows), a date that one series has gets one row per record;
\* so there is exactly one row per distinct date when no series repeats a
\* date (the missing date counted as a date); in every case a row has a
\* views column populated exactly when that input has the row's date.
C7_RowsPerDate ==
  Merged /\ Keys(df1.rows) \cap Keys(df2.rows) # {} =>
    /\ \A d \in Keys(df1.rows) \cup Keys(df2.rows) :
         Cardinality(RowsAt(merged_df.rows, d)) =
           IF d \in Keys(df1.rows) \cap Keys(df2.rows)
           THEN Cardinality(RowsAt(df1.rows, d)) * Cardinality(RowsAt(df2.rows, d))
           ELSE Cardinality(RowsAt(df1.rows, d)) + Cardinality(RowsAt(df2.rows, d))
    /\ \A i \in 1..Len(merged_df.rows) :
         /\ merged_df.rows[i].date \in Keys(df1.rows) \cup Keys(df2.rows)
         /\ merged_df.rows[i].x # NaN <=> merged_df.rows[i].date \in Keys(df1.rows)
         /\ merged_df.rows[i].y # NaN <=> merged_df.rows[i].date \in Keys(df2.rows)
    /\ NoRepeat(df1.rows) /\ NoRepeat(df2.rows) =>
         /\ Len(merged_df.rows) = Cardinality(Keys(df1.rows) \cup Keys(df2.rows))
         /\ NoRepeat(merged_df.rows)

\* two series without repeated dates that share the missing date and differ
\* in another date
C7_Witness ==
  /\ pc = "aggregate"
  /\ NoRepeat(df1.rows) /\ NoRepeat(df2.rows)
  /\ NoneDate \in Keys(df1.rows) \cap Keys(df2.rows)
  /\ Keys(df1.rows) # Keys(df2.rows)
  /\ Len(df1.rows) = 2
  /\ Len(merged_df.rows) = Cardinality(Keys(df1.rows) \cup Keys(df2.rows))

\* the sum of vals[i] over the positions i of I
RECURSIVE SumAt(_, _)
SumAt(vals, I) ==
  IF I = {} THEN 0
  ELSE LET i == CHOOSE k \in I : TRUE
       IN  vals[i] + SumAt(vals, I \ {i})

\* the mean, as [sum, n], of vals over the positions of I
MeanAt(vals, I) == [sum |-> SumAt(vals, I), n |-> Cardinality(I)]

\* the positions of the rows of quarter q whose cell c is populated
CellsOf(rows, q, c) ==
  { i \in 1..Len(rows) : QuarterOf(rows[i].date) = q /\ Cell(rows[i], c) # NaN }

\* the positions of the records of a fetched series that fall in quarter q
RecordsOf(rows, q) == { i \in 1..Len(rows) : QuarterOf(rows[i].date) = q }

\* the calendar quarters of the dated rows
QuartersOf(rows) ==
  { QuarterOf(rows[i].date) : i \in { k \in 1..Len(rows) : rows[k].date # NoneDate } }

\* C8: the aggregation has one group per calendar quarter of the merged
\* series, in ascending order, labelled "Q<n> <year>"; a group's value for an
\* article is the mean of that article's populated cells in the quarter,
\* whatever the other column holds, which is the mean of the article's own
\* fetched records of the quarter when the other series repeats no date; the
\* scenario A = [10, 20, 30], B = [5, 15] gives 3 merged rows, the first with
\* A = 10 and B missing, and the one group Q1 2024 with means 20 and 10.
C8_QuarterMeans ==
  Aggregated =>
    LET rows == merged_df.rows
        groups == quarter_df.rows
    IN  /\ Len(groups) = Cardinality(QuartersOf(rows))
        /\ { groups[g].quarter : g \in 1..Len(groups) } = QuartersOf(rows)
        /\ \A g, h \in 1..Len(groups) : g < h => groups[g].quarter < groups[h].quarter
        /\ \A g \in 1..Len(groups) :
             LET q == groups[g].quarter
             IN  /\ groups[g].quarter_str
                      = << "Q", Chr(q % 10), " " >> \o Pad(q \div 10, 4)
                 /\ q % 10 = (MonthOf(rows[CHOOSE i \in RecordsOf(rows, q) : TRUE].date) + 2) \div 3
                 /\ groups[g].means[1]
                      = MeanAt([i \in 1..Len(rows) |-> rows[i].x], CellsOf(rows, q, 1))
                 /\ groups[g].means[2]
                      = MeanAt([i \in 1..Len(rows) |-> rows[i].y], CellsOf(rows, q, 2))
                 /\ NoRepeat(df2.rows) =>
                      groups[g].means[1]
                        = MeanAt([i \in 1..Len(df1.rows) |-> df1.rows[i].views],
                                 RecordsOf(df1.rows, q))
                 /\ NoRepeat(df1.rows) =>
                      groups[g].means[2]
                        = MeanAt([i \in 1..Len(df2.rows) |-> df2.rows[i].views],
                                 RecordsOf(df2.rows, q))
        /\ data1 = ScenarioA /\ data2 = ScenarioB =>
             /\ Len(rows) = 3
             /\ rows[1] = [date |-> MkDate(2024, 1, 1), x |-> 10, y |-> NaN]
             /\ Len(groups) = 1
             /\ groups[1].quarter_str = << "Q", "1", " ", "2", "0", "2", "4" >>
             /\ groups[1].means[1].n > 0
             /\ groups[1].means[1].sum = 20 * groups[1].means[1].n
             /\ groups[1].means[2].n > 0
             /\ groups[1].means[2].sum = 10 * groups[1].means[2].n

\* the scenario, aggregated and charted
C8_Witness ==
  /\ pc = "done"
  /\ data1 = ScenarioA /\ data2 = ScenarioB
  /\ Len(quarter_df.rows) = 1

\* the timestamp of the item does not parse
Malformed(item) == ~ParseTimestamp(ItemTimestamp(item)).ok

\* the rows of a frame that have a date
RECURSIVE Dated(_)
Dated(rows) ==
  IF rows = << >> THEN << >>
  ELSE (IF Head(rows).date # NoneDate THEN << Head(rows) >> ELSE << >>)
       \o Dated(Tail(rows))

\* C9: an item whose timestamp does not parse does not abort process_data:
\* the frame has one record per item, that item's record has no date and
\* keeps its views (0 when the key is missing), and the other items get their
\* dates and views; the record without date is in no quarterly group, and
\* the dated rows of the merge and the whole quarterly table are what the
\* responses without the malformed items give.
C9_MalformedTimestamp ==
  /\ pc # "process" =>
       \A s \in {1, 2} :
         LET data == IF s = 1 THEN data1 ELSE data2
             df == IF s = 1 THEN df1 ELSE df2
         IN  /\ Len(df.rows) = Len(data)
             /\ \A i \in 1..Len(data) :
                  /\ df.rows[i].views
                       = IF "views" \in data[i].keys THEN data[i].views ELSE 0
                  /\ Malformed(data[i]) => df.rows[i].date = NoneDate
                  /\ ~Malformed(data[i]) =>
                       df.rows[i].date = ParseTimestamp(data[i].timestamp).date
  /\ Merged =>
       Dated(merged_df.rows) = SortByDate(OuterJoin(Dated(df1.rows), Dated(df2.rows)))
  /\ Aggregated =>
       /\ \A g \in 1..Len(quarter_df.rows) : quarter_df.rows[g].quarter # NaT
       /\ quarter_df =
            aggregate_by_quarter([cols |-> merged_df.cols, rows |-> Dated(merged_df.rows)],
                                 article1, article2)

\* a response with a malformed item and a well-formed one, aggregated
C9_Witness ==
  /\ pc = "done"
  /\ Len(data1) = 2
  /\ data1[1].timestamp = BadTs
  /\ ~Malformed(data1[2])
  /\ Len(quarter_df.rows) >= 1

====
